---- MODULE Spec2Model ----
(***************************************************************************)
(* The Physarum simulation engine of src/src/model.rs: Agent, Model::new,  *)
(* Model::pick_direction, Model::step, save_image_data, flush_image_data.   *)
(*                                                                         *)
(* Arithmetic.  f32 quantities are fixed-point integers:                   *)
(*   - a position is counted in 1/Sub of a cell, so 0 <= x < width * Sub;  *)
(*   - an angle is counted in quarter turns, so TAU = 4 and cos/sin are    *)
(*     exact (CosTab, SinTab);                                             *)
(*   - attraction factors are counted in tenths;                           *)
(*   - a sensor reading is Sub * Sub times the interpolated trail value.   *)
(* Grids are heap objects: `store` maps a reference to a Grid value, the   *)
(* model and every queued ImgData hold references.                         *)
(*                                                                         *)
(* crate::grid (Grid, PopulationConfig, combine) and crate::util (wrap)    *)
(* are not among the sources; they follow sections 4.1 to 4.3 of the       *)
(* specification.                                                          *)
(***************************************************************************)
EXTENDS Integers, Sequences, FiniteSets, TLC

\* ------------------------------------------------------------------ bounds
MaxDim == 2
MaxParticles == 2
MaxPopulations == 2
MaxDiffusivity == 1
MaxSteps == 2
MaxFlushes == 1
MaxSeed == 1
MaxReading == 2
Sub == 2

\* ------------------------------------------------------- program constants
TAU == 4
ATTRACTION_FACTOR_MEAN == 10
ATTRACTION_FACTOR_STD == 1
REPULSION_FACTOR_MEAN == -10
REPULSION_FACTOR_STD == 1
UsizeMax == 2147483647

VARIABLES
    pc,               \* position of the caller: uninit, aborted, idle, sense, deposit, diffuse
    agents,           \* Model.agents : [0..n-1 -> Agent]
    grids,            \* Model.grids : [0..p-1 -> reference into store]
    store,            \* the heap of Grid objects, a sequence indexed by reference
    attraction_table, \* Model.attraction_table
    diffusivity,      \* Model.diffusivity
    iteration,        \* Model.iteration
    img_data_vec,     \* Model.img_data_vec : Seq of [grids, iteration]
    ticked,           \* agents the parallel for_each of this step has processed
    dep_i,            \* index of the sequential deposit loop
    diffused,         \* grids the parallel diffuse of this step has processed
    rng_draws,        \* number of values taken from thread_rng inside step()
    args,             \* the arguments Model::new was called with
    pre_agents,       \* history: agents when the sense+steer phase began
    pre_data,         \* history: primary fields when the deposit phase began
    n_steps,          \* history: number of step() calls completed
    n_flushes,        \* history: number of flush_image_data() calls
    pd_in,            \* arguments of a stand-alone pick_direction call
    pd_out            \* its result

vars == <<pc, agents, grids, store, attraction_table, diffusivity, iteration,
          img_data_vec, ticked, dep_i, diffused, rng_draws, args, pre_agents,
          pre_data, n_steps, n_flushes, pd_in, pd_out>>

\* ----------------------------------------------------------------- helpers
CosTab == <<1, 0, -1, 0>>
SinTab == <<0, 1, 0, -1>>
Cos(a) == CosTab[(a % TAU) + 1]
Sin(a) == SinTab[(a % TAU) + 1]

RECURSIVE SumOver(_, _)
SumOver(f, S) ==
    IF S = {} THEN 0
    ELSE LET e == CHOOSE e \in S : TRUE IN f[e] + SumOver(f, S \ {e})

AgentIds == DOMAIN agents
PopIds == DOMAIN grids
GridOf(p) == store[grids[p]]

\* ------------------------------------------------------------ random source
RngMod == 64
RngNext(s) == (s * 13 + 7) % RngMod

\* the state thread_rng starts in, for the seed-th seeding by the system
RngSeed(seed) == (seed * 19) % RngMod

\* the k-th word thread_rng hands out
RECURSIVE RngAt(_, _)
RngAt(seed, k) == IF k = 0 THEN RngSeed(seed) ELSE RngNext(RngAt(seed, k - 1))

\* a uniform draw from 0..n-1 out of the k-th word of the stream
Uniform(seed, k, n) == (RngAt(seed, k) * n) \div RngMod

\* -------------------------------------------------------------------- util
wrap(x, max) == x % max

\* -------------------------------------------------------------------- Grid
Cells(width, height) == 0 .. (width * height - 1)

GridConfig(seed, k, width, height) ==
    [sensor_distance   |-> 1 + Uniform(seed, k, 2 * Sub),
     sensor_angle      |-> 1 + Uniform(seed, k + 1, 2),
     rotation_angle    |-> Uniform(seed, k + 2, TAU),
     step_distance     |-> 1 + Uniform(seed, k + 3, 2 * Sub + 1),
     deposition_amount |-> 4 * (1 + Uniform(seed, k + 4, 2)),
     decay_factor      |-> 5 + Uniform(seed, k + 5, 5)]

GridDraws == 6

Grid_new(width, height, seed, k) ==
    [width  |-> width,
     height |-> height,
     data   |-> [c \in Cells(width, height) |-> 0],
     buf    |-> [c \in Cells(width, height) |-> 0],
     config |-> GridConfig(seed, k, width, height)]

\* nearest cell of a wrapped continuous coordinate
index(grid, x, y) ==
    LET i == ((wrap(x, grid.width * Sub) + (Sub \div 2)) \div Sub) % grid.width
        j == ((wrap(y, grid.height * Sub) + (Sub \div 2)) \div Sub) % grid.height
    IN  j * grid.width + i

\* bilinear interpolation of the read buffer, scaled by Sub * Sub
get_buf(grid, x, y) ==
    LET xw == wrap(x, grid.width * Sub)
        yw == wrap(y, grid.height * Sub)
        i0 == xw \div Sub
        j0 == yw \div Sub
        fx == xw % Sub
        fy == yw % Sub
        i1 == (i0 + 1) % grid.width
        j1 == (j0 + 1) % grid.height
        w  == grid.width
    IN  (Sub - fx) * (Sub - fy) * grid.buf[j0 * w + i0]
        + fx * (Sub - fy) * grid.buf[j0 * w + i1]
        + (Sub - fx) * fy * grid.buf[j1 * w + i0]
        + fx * fy * grid.buf[j1 * w + i1]

deposit(grid, x, y) ==
    LET c == index(grid, x, y)
    IN  [grid EXCEPT !.data[c] = @ + grid.config.deposition_amount]

diffuse(grid, d) ==
    LET w == grid.width
        h == grid.height
        n == (2 * d + 1) * (2 * d + 1)
        Nbh == (0 - d .. d) \X (0 - d .. d)
        blur(c) ==
            LET i == c % w
                j == c \div w
                v == [o \in Nbh |-> grid.data[((j + o[2]) % h) * w + ((i + o[1]) % w)]]
            IN  SumOver(v, Nbh) \div n
    IN  [grid EXCEPT !.data = [c \in Cells(w, h) |->
                                  (blur(c) * grid.config.decay_factor) \div 10]]

\* the read buffer of population i after combine
combine_buf(i) ==
    [c \in DOMAIN GridOf(i).buf |->
        SumOver([j \in PopIds |-> attraction_table[i][j] * GridOf(j).data[c]], PopIds)]

\* ------------------------------------------------------------------- Agent
Agent_new(width, height, id, seed, k) ==
    [x             |-> (RngAt(seed, k) * width * Sub) \div RngMod,
     y             |-> (RngAt(seed, k + 1) * height * Sub) \div RngMod,
     angle         |-> (RngAt(seed, k + 2) * TAU) \div RngMod,
     population_id |-> id]

AgentDraws == 3

\* rotate_and_move with the wrap of x left out
rotate_and_move_unwrapped(agent, direction, rotation_angle, step_distance, width, height) ==
    LET delta_angle == rotation_angle * direction
        angle == wrap(agent.angle + delta_angle, TAU)
    IN  [agent EXCEPT
            !.angle = angle,
            !.x = agent.x + step_distance * Cos(angle),
            !.y = wrap(agent.y + step_distance * Sin(angle), height * Sub)]

rotate_and_move(agent, direction, rotation_angle, step_distance, width, height) ==
    LET delta_angle == rotation_angle * direction
        angle == wrap(agent.angle + delta_angle, TAU)
    IN  [agent EXCEPT
            !.angle = angle,
            !.x = wrap(agent.x + step_distance * Cos(angle), width * Sub),
            !.y = wrap(agent.y + step_distance * Sin(angle), height * Sub)]

\* ------------------------------------------------------------------- Model
\* particles_per_grid rounding down
particles_per_grid_floor(n_particles, n_populations) ==
    IF n_populations = 0
    THEN IF n_particles = 0 THEN 0 ELSE UsizeMax
    ELSE n_particles \div n_populations

\* (n_particles as f64 / n_populations as f64).ceil() as usize; the cast
\* saturates +inf to usize::MAX and maps NaN (0 / 0) to 0
particles_per_grid(n_particles, n_populations) ==
    IF n_populations = 0
    THEN IF n_particles = 0 THEN 0 ELSE UsizeMax
    ELSE (n_particles + n_populations - 1) \div n_populations

\* one normal sample, in tenths: the mean or one deviation to either side
Normal_sample(mean, std, seed, k) == mean + std * (Uniform(seed, k, 3) - 1)

new_attraction_table(n_populations, seed) ==
    [i \in 0 .. n_populations - 1 |->
        [j \in 0 .. n_populations - 1 |->
            IF i = j
            THEN Normal_sample(ATTRACTION_FACTOR_MEAN, ATTRACTION_FACTOR_STD,
                               seed, i * n_populations + j)
            ELSE Normal_sample(REPULSION_FACTOR_MEAN, REPULSION_FACTOR_STD,
                               seed, i * n_populations + j)]]

\* Grid::new refuses non-positive dimensions
Grid_new_aborts(width, height) == width = 0 \/ height = 0

New(width, height, n_particles, n_populations, d, seed) ==
    LET ppg == particles_per_grid(n_particles, n_populations)
        n   == ppg * n_populations
        k0  == n_populations * n_populations
        k1  == k0 + AgentDraws * n
    IN  /\ pc = "uninit"
        /\ IF n_populations > 0 /\ Grid_new_aborts(width, height)
           THEN /\ pc' = "aborted"
                /\ UNCHANGED <<agents, grids, store, attraction_table, diffusivity,
                               iteration, img_data_vec, args>>
           ELSE /\ pc' = "idle"
                /\ attraction_table' = new_attraction_table(n_populations, seed)
                /\ agents' = [i \in 0 .. n - 1 |->
                                 Agent_new(width, height, i \div ppg, seed,
                                           k0 + AgentDraws * i)]
                /\ grids' = [p \in 0 .. n_populations - 1 |-> p + 1]
                /\ store' = [r \in 1 .. n_populations |->
                                Grid_new(width, height, seed, k1 + GridDraws * (r - 1))]
                /\ diffusivity' = d
                /\ iteration' = 0
                /\ img_data_vec' = <<>>
                /\ args' = [width |-> width, height |-> height,
                            n_particles |-> n_particles,
                            n_populations |-> n_populations]
        /\ UNCHANGED <<ticked, dep_i, diffused, rng_draws, pre_agents, pre_data,
                       n_steps, n_flushes, pd_in, pd_out>>

\* pick_direction with non-strict comparisons in the random case
pick_direction_le(center, left, right, coin) ==
    IF (center > left) /\ (center > right) THEN [direction |-> 0, draws |-> 0]
    ELSE IF (center <= left) /\ (center <= right) THEN [direction |-> coin, draws |-> 1]
    ELSE IF left < right THEN [direction |-> 1, draws |-> 0]
    ELSE IF right < left THEN [direction |-> -1, draws |-> 0]
    ELSE [direction |-> 0, draws |-> 0]

\* pick_direction turning right when no comparison decides
pick_direction_tie_right(center, left, right, coin) ==
    IF (center > left) /\ (center > right) THEN [direction |-> 0, draws |-> 0]
    ELSE IF (center < left) /\ (center < right) THEN [direction |-> coin, draws |-> 1]
    ELSE IF left < right THEN [direction |-> 1, draws |-> 0]
    ELSE IF right < left THEN [direction |-> -1, draws |-> 0]
    ELSE [direction |-> 1, draws |-> 0]

\* the result of a pick_direction call: the direction and the number of
\* values it took from rng
pick_direction(center, left, right, coin) ==
    IF (center > left) /\ (center > right) THEN [direction |-> 0, draws |-> 0]
    ELSE IF (center < left) /\ (center < right) THEN [direction |-> coin, draws |-> 1]
    ELSE IF left < right THEN [direction |-> 1, draws |-> 0]
    ELSE IF right < left THEN [direction |-> -1, draws |-> 0]
    ELSE [direction |-> 0, draws |-> 0]

\* the three sensor readings of an agent on its population's grid
sense(agent, grid) ==
    LET sd == grid.config.sensor_distance
        sa == grid.config.sensor_angle
        agent_add_sens == agent.angle + sa
        agent_sub_sens == agent.angle - sa
    IN  [trail_c |-> get_buf(grid, agent.x + Cos(agent.angle) * sd,
                                   agent.y + Sin(agent.angle) * sd),
         trail_l |-> get_buf(grid, agent.x + Cos(agent_sub_sens) * sd,
                                   agent.y + Sin(agent_sub_sens) * sd),
         trail_r |-> get_buf(grid, agent.x + Cos(agent_add_sens) * sd,
                                   agent.y + Sin(agent_add_sens) * sd)]

\* the body of the parallel for_each closure for one agent
tick(agent, grid, coin) ==
    LET s == sense(agent, grid)
        r == pick_direction(s.trail_c, s.trail_l, s.trail_r, coin)
    IN  [agent |-> rotate_and_move(agent, r.direction, grid.config.rotation_angle,
                                   grid.config.step_distance, grid.width, grid.height),
         draws |-> r.draws]

\* step(): combine(grids, &self.attraction_table)
StepCombine ==
    /\ pc = "idle"
    /\ n_steps < MaxSteps
    /\ store' = [r \in DOMAIN store |->
                    IF \E i \in PopIds : grids[i] = r
                    THEN [store[r] EXCEPT
                             !.buf = combine_buf(CHOOSE i \in PopIds : grids[i] = r)]
                    ELSE store[r]]
    /\ pc' = "sense"
    /\ ticked' = {}
    /\ pre_agents' = agents
    /\ UNCHANGED <<agents, grids, attraction_table, diffusivity, iteration,
                   img_data_vec, dep_i, diffused, rng_draws, args, pre_data,
                   n_steps, n_flushes, pd_in, pd_out>>

\* a tick that also marks the cell it leaves in the shared read buffer
StepTick_racy(a) ==
    /\ pc = "sense"
    /\ a \in AgentIds \ ticked
    /\ \E coin \in {-1, 1} :
          LET t == tick(agents[a], GridOf(agents[a].population_id), coin)
          IN  /\ agents' = [agents EXCEPT ![a] = t.agent]
              /\ rng_draws' = rng_draws + t.draws
    /\ store' = [store EXCEPT ![grids[agents[a].population_id]].buf[
                     index(GridOf(agents[a].population_id), agents[a].x, agents[a].y)]
                        = @ + 1]
    /\ ticked' = ticked \cup {a}
    /\ UNCHANGED <<pc, grids, attraction_table, diffusivity, iteration,
                   img_data_vec, dep_i, diffused, args, pre_agents, pre_data,
                   n_steps, n_flushes, pd_in, pd_out>>

\* step(): one agent of self.agents.par_iter_mut().for_each(..)
StepTick(a) ==
    /\ pc = "sense"
    /\ a \in AgentIds \ ticked
    /\ \E coin \in {-1, 1} :
          LET t == tick(agents[a], GridOf(agents[a].population_id), coin)
          IN  /\ agents' = [agents EXCEPT ![a] = t.agent]
              /\ rng_draws' = rng_draws + t.draws
    /\ ticked' = ticked \cup {a}
    /\ UNCHANGED <<pc, grids, store, attraction_table, diffusivity, iteration,
                   img_data_vec, dep_i, diffused, args, pre_agents, pre_data,
                   n_steps, n_flushes, pd_in, pd_out>>

\* the deposit loop starting as soon as one agent was processed
StepTickJoin_early ==
    /\ pc = "sense"
    /\ ticked # {}
    /\ pc' = "deposit"
    /\ dep_i' = 0
    /\ pre_data' = [p \in PopIds |-> GridOf(p).data]
    /\ UNCHANGED <<agents, grids, store, attraction_table, diffusivity, iteration,
                   img_data_vec, ticked, diffused, rng_draws, args, pre_agents,
                   n_steps, n_flushes, pd_in, pd_out>>

\* step(): the parallel for_each returns once every agent was processed
StepTickJoin ==
    /\ pc = "sense"
    /\ ticked = AgentIds
    /\ pc' = "deposit"
    /\ dep_i' = 0
    /\ pre_data' = [p \in PopIds |-> GridOf(p).data]
    /\ UNCHANGED <<agents, grids, store, attraction_table, diffusivity, iteration,
                   img_data_vec, ticked, diffused, rng_draws, args, pre_agents,
                   n_steps, n_flushes, pd_in, pd_out>>

\* a deposit loop that writes every agent's trail into the first grid
StepDeposit_first_grid ==
    /\ pc = "deposit"
    /\ dep_i \in AgentIds
    /\ LET agent == agents[dep_i]
       IN  store' = [store EXCEPT ![grids[0]] = deposit(@, agent.x, agent.y)]
    /\ dep_i' = dep_i + 1
    /\ UNCHANGED <<pc, agents, grids, attraction_table, diffusivity, iteration,
                   img_data_vec, ticked, diffused, rng_draws, args, pre_agents,
                   pre_data, n_steps, n_flushes, pd_in, pd_out>>

\* step(): one iteration of `for agent in self.agents.iter()`
StepDeposit ==
    /\ pc = "deposit"
    /\ dep_i \in AgentIds
    /\ LET agent == agents[dep_i]
       IN  store' = [store EXCEPT ![grids[agent.population_id]] =
                                      deposit(@, agent.x, agent.y)]
    /\ dep_i' = dep_i + 1
    /\ UNCHANGED <<pc, agents, grids, attraction_table, diffusivity, iteration,
                   img_data_vec, ticked, diffused, rng_draws, args, pre_agents,
                   pre_data, n_steps, n_flushes, pd_in, pd_out>>

\* step(): the deposit loop is exhausted, the parallel diffuse starts
StepDepositEnd ==
    /\ pc = "deposit"
    /\ dep_i = Cardinality(AgentIds)
    /\ pc' = "diffuse"
    /\ diffused' = {}
    /\ UNCHANGED <<agents, grids, store, attraction_table, diffusivity, iteration,
                   img_data_vec, ticked, dep_i, rng_draws, args, pre_agents,
                   pre_data, n_steps, n_flushes, pd_in, pd_out>>

\* step(): one grid of self.grids.par_iter_mut().for_each(..)
StepDiffuse(p) ==
    /\ pc = "diffuse"
    /\ p \in PopIds \ diffused
    /\ store' = [store EXCEPT ![grids[p]] = diffuse(@, diffusivity)]
    /\ diffused' = diffused \cup {p}
    /\ UNCHANGED <<pc, agents, grids, attraction_table, diffusivity, iteration,
                   img_data_vec, ticked, dep_i, rng_draws, args, pre_agents,
                   pre_data, n_steps, n_flushes, pd_in, pd_out>>

\* a clone that shares the grids instead of copying them
grids_clone_shallow ==
    [refs  |-> grids,
     store |-> store]

\* self.grids.clone(): the references of the copy and the heap that holds it
grids_clone ==
    [refs  |-> [p \in PopIds |-> Len(store) + p + 1],
     store |-> store \o [k \in 1 .. Cardinality(PopIds) |-> GridOf(k - 1)]]

save_image_data ==
    /\ store' = grids_clone.store
    /\ img_data_vec' = Append(img_data_vec,
                              [grids |-> grids_clone.refs, iteration |-> iteration])

\* a step that increments the counter before it queues the snapshot
StepSave_late_tag ==
    /\ pc = "diffuse"
    /\ diffused = PopIds
    /\ store' = grids_clone.store
    /\ img_data_vec' = Append(img_data_vec,
                              [grids |-> grids_clone.refs, iteration |-> iteration + 1])
    /\ iteration' = iteration + 1
    /\ pc' = "idle"
    /\ n_steps' = n_steps + 1
    /\ UNCHANGED <<agents, grids, attraction_table, diffusivity, ticked, dep_i,
                   diffused, rng_draws, args, pre_agents, pre_data, n_flushes,
                   pd_in, pd_out>>

\* step(): the parallel diffuse returned; save_image_data(); iteration += 1
StepSave ==
    /\ pc = "diffuse"
    /\ diffused = PopIds
    /\ save_image_data
    /\ iteration' = iteration + 1
    /\ pc' = "idle"
    /\ n_steps' = n_steps + 1
    /\ UNCHANGED <<agents, grids, attraction_table, diffusivity, ticked, dep_i,
                   diffused, rng_draws, args, pre_agents, pre_data, n_flushes,
                   pd_in, pd_out>>

flush_image_data ==
    /\ pc = "idle"
    /\ n_flushes < MaxFlushes
    /\ img_data_vec' = <<>>
    /\ n_flushes' = n_flushes + 1
    /\ UNCHANGED <<pc, agents, grids, store, attraction_table, diffusivity,
                   iteration, ticked, dep_i, diffused, rng_draws, args, pre_agents,
                   pre_data, n_steps, pd_in, pd_out>>

\* ----------------------------------------------------------- specification
Init ==
    /\ pc = "uninit"
    /\ agents = <<>>
    /\ grids = <<>>
    /\ store = <<>>
    /\ attraction_table = <<>>
    /\ diffusivity = 0
    /\ iteration = 0
    /\ img_data_vec = <<>>
    /\ ticked = {}
    /\ dep_i = 0
    /\ diffused = {}
    /\ rng_draws = 0
    /\ args = <<>>
    /\ pre_agents = <<>>
    /\ pre_data = <<>>
    /\ n_steps = 0
    /\ n_flushes = 0
    /\ pd_in = <<>>
    /\ pd_out = <<>>

Next ==
    \/ \E width \in 0 .. MaxDim, height \in {0, MaxDim},
          n_particles \in 0 .. MaxParticles, n_populations \in 0 .. MaxPopulations,
          d \in 0 .. MaxDiffusivity, seed \in 0 .. MaxSeed :
          New(width, height, n_particles, n_populations, d, seed)
    \/ StepCombine
    \/ \E a \in AgentIds : StepTick(a)
    \/ StepTickJoin
    \/ StepDeposit
    \/ StepDepositEnd
    \/ \E p \in PopIds : StepDiffuse(p)
    \/ StepSave
    \/ flush_image_data

Spec == Init /\ [][Next]_vars

\* a stand-alone call of pick_direction on arbitrary readings
PickInit ==
    /\ pc = "pick"
    /\ pd_in \in [center : (0 - MaxReading) .. MaxReading,
                  left   : (0 - MaxReading) .. MaxReading,
                  right  : (0 - MaxReading) .. MaxReading,
                  coin   : {-1, 1}]
    /\ pd_out = <<>>
    /\ agents = <<>>
    /\ grids = <<>>
    /\ store = <<>>
    /\ attraction_table = <<>>
    /\ diffusivity = 0
    /\ iteration = 0
    /\ img_data_vec = <<>>
    /\ ticked = {}
    /\ dep_i = 0
    /\ diffused = {}
    /\ rng_draws = 0
    /\ args = <<>>
    /\ pre_agents = <<>>
    /\ pre_data = <<>>
    /\ n_steps = 0
    /\ n_flushes = 0

PickApply ==
    /\ pc = "pick"
    /\ pd_out' = pick_direction(pd_in.center, pd_in.left, pd_in.right, pd_in.coin)
    /\ pc' = "picked"
    /\ UNCHANGED <<agents, grids, store, attraction_table, diffusivity, iteration,
                   img_data_vec, ticked, dep_i, diffused, rng_draws, args,
                   pre_agents, pre_data, n_steps, n_flushes, pd_in>>

NextPick == PickApply

SpecPick == PickInit /\ [][NextPick]_vars

\* ================================================================== claims
Ready == pc \notin {"uninit", "aborted", "pick", "picked"}

\* C1: every agent's x lies in [0, width), its y in [0, height) and its angle
\* in [0, 2*pi), after construction and at every point of every step().
C1_Toroidal ==
    Ready => \A a \in AgentIds :
                /\ 0 <= agents[a].x /\ agents[a].x < args.width * Sub
                /\ 0 <= agents[a].y /\ agents[a].y < args.height * Sub
                /\ 0 <= agents[a].angle /\ agents[a].angle < TAU

\* an agent that has moved in the second step and crossed the right or the
\* left edge of the plane
C1_Witness ==
    /\ pc = "sense"
    /\ n_steps >= 1
    /\ \E a \in ticked :
          LET raw == pre_agents[a].x
                     + GridOf(agents[a].population_id).config.step_distance
                       * Cos(agents[a].angle)
          IN  raw >= args.width * Sub \/ raw < 0

\* the transitions of the three agent and grid phases of step()
TickStep == ticked' # ticked /\ ticked' # {}
DepositStep == dep_i' = dep_i + 1
DiffuseStep == diffused' # diffused /\ diffused' # {}

\* C2: within a step, an agent senses only a read buffer that combine of this
\* step has written, a deposit happens only when every agent has moved, and a
\* grid is diffused only when every agent has deposited.
C2_PhaseOrder ==
    [][/\ TickStep =>
            /\ pc = "sense"
            /\ \A i \in PopIds : GridOf(i).buf = combine_buf(i)
       /\ DepositStep =>
            /\ pc = "deposit"
            /\ ticked = AgentIds
       /\ DiffuseStep =>
            /\ pc = "diffuse"
            /\ ticked = AgentIds
            /\ dep_i = Cardinality(AgentIds)]_vars

\* the second step is diffusing two grids that two agents deposited into
C2_Witness ==
    /\ pc = "diffuse"
    /\ n_steps >= 1
    /\ Cardinality(diffused) = 2
    /\ Cardinality(AgentIds) >= 2

\* C3: pick_direction follows the decision table on every triple of readings
\* and draws from the random source in the second case only.
C3_DecisionTable ==
    pc = "picked" =>
        LET c == pd_in.center
            l == pd_in.left
            r == pd_in.right
            d == pd_out.direction
        IN  /\ d \in {-1, 0, 1}
            /\ (c > l /\ c > r) => d = 0
            /\ (c < l /\ c < r) => d = pd_in.coin /\ d # 0
            /\ (~(c > l /\ c > r) /\ ~(c < l /\ c < r)) =>
                  /\ l < r => d = 1
                  /\ r < l => d = -1
                  /\ l = r => d = 0
            /\ pd_out.draws = (IF c < l /\ c < r THEN 1 ELSE 0)

\* the random case resolved to -1
C3_Witness ==
    /\ pc = "picked"
    /\ pd_in.center < pd_in.left
    /\ pd_in.center < pd_in.right
    /\ pd_out.direction = -1

\* the state of agent a after its tick, for some tie-break choice, computed
\* from the state it had when the phase began
TickedFromStart(a) ==
    \E coin \in {-1, 1} :
        agents[a] = tick(pre_agents[a], GridOf(pre_agents[a].population_id), coin).agent

\* C4: in the sense+steer phase a tick changes one agent's x, y and angle and
\* nothing else, and every agent's result is the tick of its own state at the
\* start of the phase, whatever the order in which the agents are processed.
C4_SenseIsolated ==
    /\ [](pc = "sense" =>
            \A a \in AgentIds :
                IF a \in ticked THEN TickedFromStart(a) ELSE agents[a] = pre_agents[a])
    /\ [][TickStep =>
            /\ store' = store
            /\ grids' = grids
            /\ attraction_table' = attraction_table
            /\ \E a \in AgentIds :
                  /\ ticked' = ticked \cup {a}
                  /\ agents'[a].population_id = agents[a].population_id
                  /\ \A b \in AgentIds \ {a} : agents'[b] = agents[b]]_vars

\* an agent was processed before an agent of lower index, on a read buffer
\* that is not flat, and it moved
C4_Witness ==
    /\ pc = "sense"
    /\ \E a \in ticked, b \in AgentIds \ ticked :
          /\ b < a
          /\ agents[a] # pre_agents[a]
          /\ \E c1, c2 \in DOMAIN GridOf(agents[a].population_id).buf :
                GridOf(agents[a].population_id).buf[c1]
                    # GridOf(agents[a].population_id).buf[c2]

\* the agents among the first k that belong to population p and stand on cell c
DepositorsOf(p, c, k) ==
    {a \in AgentIds : /\ a < k
                      /\ agents[a].population_id = p
                      /\ index(GridOf(p), agents[a].x, agents[a].y) = c}

\* C5: in the deposit phase the primary field of population p at cell c is its
\* value before the phase plus p's deposition amount for each agent of p that
\* has deposited and whose position maps to c.
C5_DepositSum ==
    pc = "deposit" =>
        \A p \in PopIds : \A c \in DOMAIN GridOf(p).data :
            GridOf(p).data[c] =
                pre_data[p][c] + GridOf(p).config.deposition_amount
                                 * Cardinality(DepositorsOf(p, c, dep_i))

\* the deposit loop of the second step has finished and two agents of one
\* population landed on the same cell
C5_Witness ==
    /\ pc = "deposit"
    /\ dep_i = Cardinality(AgentIds)
    /\ n_steps >= 1
    /\ \E p \in PopIds : \E c \in DOMAIN GridOf(p).data :
          Cardinality(DepositorsOf(p, c, dep_i)) >= 2

\* C6: a model that left construction has at least one population and
\* positive dimensions.
C6_InvalidConfigAborts ==
    Ready => /\ args.n_populations >= 1
             /\ args.width >= 1
             /\ args.height >= 1

\* C7: the realized agent count is the requested count rounded up to a
\* multiple of the population count, every population owns the same number of
\* agents, and grids and attraction table are square in the population count.
C7_Shape ==
    (Ready /\ args.n_populations >= 1) =>
        LET np == args.n_populations
            n  == args.n_particles
        IN  /\ \E k \in 0 .. n :
                  /\ k * np >= n
                  /\ (k = 0 \/ (k - 1) * np < n)
                  /\ Cardinality(AgentIds) = k * np
                  /\ \A p \in 0 .. np - 1 :
                        Cardinality({a \in AgentIds : agents[a].population_id = p}) = k
            /\ Cardinality(AgentIds) >= n
            /\ \A a \in AgentIds : agents[a].population_id \in 0 .. np - 1
            /\ Cardinality(PopIds) = np
            /\ Cardinality(DOMAIN attraction_table) = np
            /\ \A i \in DOMAIN attraction_table :
                  Cardinality(DOMAIN attraction_table[i]) = np

\* a request that is not a multiple of the population count, after a step
C7_Witness ==
    /\ pc = "idle"
    /\ n_steps >= 1
    /\ args.n_populations = 2
    /\ args.n_particles = 1
    /\ Cardinality(AgentIds) = 2

\* the primary fields held by the k-th queued snapshot
SnapshotData(k) ==
    [p \in DOMAIN img_data_vec[k].grids |-> store[img_data_vec[k].grids[p]].data]

\* C8: no step of the model changes the fields of a snapshot that stays in
\* the queue.
C8_SnapshotStable ==
    [][\A k \in 1 .. Len(img_data_vec) :
          k <= Len(img_data_vec') =>
              /\ img_data_vec'[k] = img_data_vec[k]
              /\ SnapshotData(k)' = SnapshotData(k)]_vars

\* a later step has changed a live field and the queued snapshot differs
C8_Witness ==
    /\ Len(img_data_vec) >= 1
    /\ n_steps >= 1
    /\ pc = "diffuse"
    /\ \E p \in PopIds :
          GridOf(p).data # store[img_data_vec[1].grids[p]].data

\* the three readings of agent a are equal
EqualReadings(a) ==
    LET s == sense(agents[a], GridOf(agents[a].population_id))
    IN  s.trail_c = s.trail_l /\ s.trail_l = s.trail_r

\* C9: an agent whose three readings are equal takes nothing from the random
\* source, keeps its heading and moves by step_distance along it, wrapped.
C9_EqualReadingsStraight ==
    [][\A a \in AgentIds :
          (pc = "sense" /\ a \notin ticked /\ a \in ticked' /\ EqualReadings(a)) =>
              LET g == GridOf(agents[a].population_id)
              IN  /\ rng_draws' = rng_draws
                  /\ agents'[a].angle = agents[a].angle
                  /\ agents'[a].x = (agents[a].x
                                     + g.config.step_distance * Cos(agents[a].angle))
                                    % (args.width * Sub)
                  /\ agents'[a].y = (agents[a].y
                                     + g.config.step_distance * Sin(agents[a].angle))
                                    % (args.height * Sub)]_vars

\* an agent with a turning configuration went straight on a flat buffer
C9_Witness ==
    /\ pc = "sense"
    /\ \E a \in ticked :
          LET g == GridOf(agents[a].population_id)
              s == sense(pre_agents[a], g)
          IN  /\ s.trail_c = s.trail_l /\ s.trail_l = s.trail_r
              /\ g.config.rotation_angle % TAU # 0
              /\ agents[a].angle = pre_agents[a].angle
              /\ agents[a] # pre_agents[a]

\* C10: the counter counts the completed step() calls, every step queues one
\* snapshot tagged with the counter before its increment, tags in the queue
\* increase strictly, and a flush empties the queue and keeps the counter.
C10_Counter ==
    /\ [](Ready =>
            /\ iteration = n_steps
            /\ \A k \in 1 .. Len(img_data_vec) :
                  /\ img_data_vec[k].iteration < iteration
                  /\ k > 1 => img_data_vec[k - 1].iteration < img_data_vec[k].iteration
            /\ n_flushes = 0 => Len(img_data_vec) = n_steps)
    /\ [][/\ n_steps' # n_steps =>
               /\ iteration' = iteration + 1
               /\ Len(img_data_vec') = Len(img_data_vec) + 1
               /\ img_data_vec'[Len(img_data_vec')].iteration = iteration
               /\ SubSeq(img_data_vec', 1, Len(img_data_vec)) = img_data_vec
          /\ n_flushes' # n_flushes =>
               /\ img_data_vec' = <<>>
               /\ iteration' = iteration]_vars

\* a flush between two steps: one snapshot queued, tagged 1, counter 2
C10_Witness ==
    /\ pc = "idle"
    /\ n_flushes = 1
    /\ iteration = 2
    /\ Len(img_data_vec) = 1
    /\ img_data_vec[1].iteration = 1

====
